---- MODULE Spec2Model ----
(***************************************************************************)
(* A model of src/vga_buffer.rs: the VGA text buffer, the Writer that      *)
(* prints into its last row and scrolls, and the global WRITER, a          *)
(* lazy_static spin::Mutex<Writer> reached through _print.                 *)
(*                                                                         *)
(* Bytes are the integers 0..255; a &str is the sequence of its UTF-8      *)
(* bytes.  Rows and columns are 0-based as in the source.                  *)
(***************************************************************************)
EXTENDS Integers, Sequences, FiniteSets, TLC

\* ------------------------------------------------------------------------
\* Constants of the source
\* ------------------------------------------------------------------------
BUFFER_HEIGHT == 25
BUFFER_WIDTH == 80
VGA_ADDRESS == 753664
Black == 0
Yellow == 14
NEWLINE == 10
SPACE == 32
PRINTABLE_FIRST == 32
PRINTABLE_LAST == 126
PLACEHOLDER == 254

\* ------------------------------------------------------------------------
\* Bounds of the model
\* ------------------------------------------------------------------------
\* operations issued after the first one in SpecWriter
MaxOps == 1
\* _print calls issued in Spec
MaxCalls == 4
\* strings written after the marked line in SpecScroll
MaxScrollOps == 1
\* scrolls after the marked line in SpecScroll
MaxScrolls == 27
\* write_byte calls after the first string in SpecByte
MaxByteCalls == 2

Rows == 0..(BUFFER_HEIGHT - 1)
Cols == 0..(BUFFER_WIDTH - 1)
Contexts == {1, 2}

\* ------------------------------------------------------------------------
\* State
\* ------------------------------------------------------------------------
VARIABLES
  vga,      \* the Buffer at 0xb8000: chars[row][col], each a ScreenChar
  WRITER,   \* the Writer inside the Mutex: column_position, color_code, buffer
  lazy,     \* the lazy_static cell of WRITER: "incomplete", "running", "complete"
  locked,   \* the spin::Mutex lock flag of WRITER
  pc,       \* per context: where it stands inside _print
  args,     \* per context: the part of its fmt::Arguments not yet written
  calls,    \* operations issued so far (bounds the model)
  last,     \* observer: the operation the last step performed and its input
  probe,    \* observer: what the last operation did (scrolls, cells, bytes)
  serial,   \* observer: the strings of all calls, in lock-acquisition order
  inits,    \* observer: how many times the WRITER initializer has run
  mark,     \* observer: the marked line and the scrolls since it was written
  macro     \* observer, per context: the macro it invoked last, with its
            \* arguments, and the length of serial when it took the lock

vars == <<vga, WRITER, lazy, locked, pc, args, calls, last, probe, serial, inits, mark, macro>>

\* ------------------------------------------------------------------------
\* ColorCode, ScreenChar, Buffer
\* ------------------------------------------------------------------------
RECURSIVE BitOr(_, _)
BitOr(a, b) ==
  IF a = 0 THEN b
  ELSE IF b = 0 THEN a
  ELSE (IF a % 2 = 1 \/ b % 2 = 1 THEN 1 ELSE 0) + 2 * BitOr(a \div 2, b \div 2)

\* u8 << 4: the bits shifted past bit 7 are dropped
Shl4(x) == (x * 16) % 256

\* mutant: the two colors change places, the foreground is shifted
ColorCode_new_Swapped(foreground, background) ==
  BitOr(Shl4(foreground), background)

ColorCode_new(foreground, background) == BitOr(Shl4(background), foreground)

ScreenChar(byte, color) == [ascii_character |-> byte, color_code |-> color]

\* The memory at 0xb8000 holds whatever the hardware left there before the
\* first write: a sample content, light gray letters, every row different
\* from every other.
BootBuffer ==
  [row \in Rows |-> [col \in Cols |-> ScreenChar(97 + ((row + col) % 26), 7)]]

\* ------------------------------------------------------------------------
\* Writer.  An operation works on a record m holding the Writer's fields
\* (buffer stands for the memory the reference points to) and the observer
\* fields scrolls (calls of new_line), cell_writes (the indices
\* chars[row][col] that write_byte wrote) and forwarded (the bytes passed to
\* write_byte).
\* ------------------------------------------------------------------------
\* mutant: the blank cells take the default attribute, light gray on black
clear_row_Gray(m, row) ==
  LET blank == ScreenChar(SPACE, 7)
  IN [m EXCEPT !.buffer[row] = [col \in Cols |-> blank]]

clear_row(m, row) ==
  LET blank == ScreenChar(SPACE, m.color_code)
  IN [m EXCEPT !.buffer[row] = [col \in Cols |-> blank]]

\* the inner loop of new_line: for col in 0..BUFFER_WIDTH
CopyRowUp(chars, row) ==
  [chars EXCEPT ![row - 1] = [col \in Cols |-> chars[row][col]]]

\* the outer loop of new_line over rows lo..hi in increasing order; the
\* range is halved to keep the evaluation shallow, the left half is
\* computed before the right half starts
\* mutant: the rows are copied in decreasing order, each row is overwritten
\* before it has been copied
RECURSIVE CopyRows_Downward(_, _, _)
CopyRows_Downward(chars, lo, hi) ==
  IF lo > hi THEN chars
  ELSE IF lo = hi THEN CopyRowUp(chars, lo)
  ELSE LET mid == (lo + hi) \div 2
           lower == CopyRows_Downward(chars, mid + 1, hi)
       IN IF DOMAIN lower = Rows THEN CopyRows_Downward(lower, lo, mid) ELSE lower

RECURSIVE CopyRows(_, _, _)
CopyRows(chars, lo, hi) ==
  IF lo > hi THEN chars
  ELSE IF lo = hi THEN CopyRowUp(chars, lo)
  ELSE LET mid == (lo + hi) \div 2
           upper == CopyRows(chars, lo, mid)
       IN IF DOMAIN upper = Rows THEN CopyRows(upper, mid + 1, hi) ELSE upper

\* mutant: the scroll leaves the cursor where it was
new_line_NoReset(m) ==
  LET shifted == [m EXCEPT !.buffer = CopyRows(m.buffer, 1, BUFFER_HEIGHT - 1)]
      cleared == clear_row(shifted, BUFFER_HEIGHT - 1)
  IN [cleared EXCEPT !.scrolls = @ + 1]

\* mutant: the copy starts one row late, row 0 is never overwritten
new_line_SkipsTop(m) ==
  LET shifted == [m EXCEPT !.buffer = CopyRows(m.buffer, 2, BUFFER_HEIGHT - 1)]
      cleared == clear_row(shifted, BUFFER_HEIGHT - 1)
  IN [cleared EXCEPT !.column_position = 0, !.scrolls = @ + 1]

new_line(m) ==
  LET shifted == [m EXCEPT !.buffer = CopyRows(m.buffer, 1, BUFFER_HEIGHT - 1)]
      cleared == clear_row(shifted, BUFFER_HEIGHT - 1)
  IN [cleared EXCEPT !.column_position = 0, !.scrolls = @ + 1]

\* chars[row][col].write(c): an index outside the array panics in Rust and
\* stores nothing
StoreCell(chars, row, col, c) ==
  IF row \in Rows /\ col \in Cols THEN [chars EXCEPT ![row][col] = c] ELSE chars

\* mutant: the wrap test is off by one, a full row does not wrap
NeedsWrap_Late(column) == column > BUFFER_WIDTH

\* mutant: the wrap test fires one column early
NeedsWrap_Early(column) == column >= BUFFER_WIDTH - 1

NeedsWrap(column) == column >= BUFFER_WIDTH

\* mutant: text goes to the row above the last one
WriteRow_Above == BUFFER_HEIGHT - 2

WriteRow == BUFFER_HEIGHT - 1

\* mutant: the wrap is eager, the byte that fills the last column scrolls
\* at once
WriteCell_Eager(m1, byte) ==
  LET row == WriteRow
      col == m1.column_position
      color == m1.color_code
      m2 == [m1 EXCEPT !.buffer = StoreCell(@, row, col, ScreenChar(byte, color)),
                       !.cell_writes = @ \cup {<<row, col>>},
                       !.column_position = col + 1]
  IN IF NeedsWrap(m2.column_position) THEN new_line(m2) ELSE m2

\* mutant: the byte goes through the match of write_string first
WriteCell_Filtered(m1, byte) ==
  LET row == WriteRow
      col == m1.column_position
      color == m1.color_code
      shown == IF (byte >= PRINTABLE_FIRST /\ byte <= PRINTABLE_LAST) THEN byte
               ELSE PLACEHOLDER
  IN [m1 EXCEPT !.buffer = StoreCell(@, row, col, ScreenChar(shown, color)),
                !.cell_writes = @ \cup {<<row, col>>},
                !.column_position = col + 1]

\* mutant: the cell right of the written one is blanked, as a cursor
WriteCell_ClearsAhead(m1, byte) ==
  LET row == WriteRow
      col == m1.column_position
      color == m1.color_code
      put == StoreCell(m1.buffer, row, col, ScreenChar(byte, color))
  IN [m1 EXCEPT !.buffer = StoreCell(put, row, col + 1, ScreenChar(SPACE, color)),
                !.cell_writes = @ \cup {<<row, col>>},
                !.column_position = col + 1]

\* the end of write_byte's second arm: the cell of the last row at the
\* cursor takes the byte and the writer's color, the cursor moves right
WriteCell(m1, byte) ==
  LET row == WriteRow
      col == m1.column_position
      color == m1.color_code
  IN [m1 EXCEPT !.buffer = StoreCell(@, row, col, ScreenChar(byte, color)),
                !.cell_writes = @ \cup {<<row, col>>},
                !.column_position = col + 1]

\* mutant: the wrap test runs before the match, so a newline on a full row
\* scrolls twice
write_byte_WrapFirst(m0, byte) ==
  LET m == [m0 EXCEPT !.forwarded = Append(@, byte)]
      m1 == IF NeedsWrap(m.column_position) THEN new_line(m) ELSE m
  IN IF byte = NEWLINE THEN new_line(m1)
     ELSE WriteCell(m1, byte)

write_byte(m0, byte) ==
  LET m == [m0 EXCEPT !.forwarded = Append(@, byte)]
  IN IF byte = NEWLINE THEN new_line(m)
     ELSE LET m1 == IF NeedsWrap(m.column_position) THEN new_line(m) ELSE m
          IN WriteCell(m1, byte)

\* mutant: the printable range runs to 0x7f, DEL passes unchanged
Filter_WithDel(byte) ==
  IF (byte >= PRINTABLE_FIRST /\ byte <= PRINTABLE_LAST + 1) \/ byte = NEWLINE
  THEN byte
  ELSE PLACEHOLDER

\* the match of write_string: which byte reaches write_byte
Filter(byte) ==
  IF (byte >= PRINTABLE_FIRST /\ byte <= PRINTABLE_LAST) \/ byte = NEWLINE
  THEN byte
  ELSE PLACEHOLDER

\* the loop of write_string over s[lo..hi] in order, halved like CopyRows
RECURSIVE WriteBytes(_, _, _, _)
WriteBytes(m, s, lo, hi) ==
  IF lo > hi THEN m
  ELSE IF lo = hi THEN write_byte(m, Filter(s[lo]))
  ELSE LET mid == (lo + hi) \div 2
           first == WriteBytes(m, s, lo, mid)
       IN IF first.column_position >= 0 THEN WriteBytes(first, s, mid + 1, hi) ELSE first

\* mutant: every string starts at the left edge of the row
write_string_FromLeft(m, s) ==
  WriteBytes([m EXCEPT !.column_position = 0], s, 1, Len(s))

write_string(m, s) == WriteBytes(m, s, 1, Len(s))

\* fmt::Write::write_str always returns Ok(())
write_str(m, s) == [m |-> write_string(m, s), result |-> "Ok"]

\* ------------------------------------------------------------------------
\* fmt::Arguments.  What write_fmt does with one is a sequence of pieces:
\* "str", a literal or the text a value's formatter produced, handed to
\* write_str; or "err", a value whose formatter returned Err.
\* ------------------------------------------------------------------------
Str(s) == [kind |-> "str", s |-> s]
FmtErr == [kind |-> "err", s |-> <<>>]

\* write_fmt: the pieces in order, stopping at the first Err
RECURSIVE write_fmt(_, _)
write_fmt(m, a) ==
  IF a = <<>> THEN [m |-> m, result |-> "Ok"]
  ELSE IF Head(a).kind = "err" THEN [m |-> m, result |-> "Err"]
  ELSE LET r == write_str(m, Head(a).s)
       IN IF r.result = "Ok" THEN write_fmt(r.m, Tail(a)) ELSE r

\* ------------------------------------------------------------------------
\* Between the variables and the record an operation works on
\* ------------------------------------------------------------------------
NoProbe == [scrolls |-> 0, cell_writes |-> {}, forwarded |-> <<>>]

Machine(w, chars) ==
  [column_position |-> w.column_position, color_code |-> w.color_code,
   buffer |-> chars, scrolls |-> 0, cell_writes |-> {}, forwarded |-> <<>>]

Self == Machine(WRITER, vga)

Commit(m) ==
  /\ vga' = m.buffer
  /\ WRITER' = [column_position |-> m.column_position, color_code |-> m.color_code,
                buffer |-> VGA_ADDRESS]
  /\ probe' = [scrolls |-> m.scrolls, cell_writes |-> m.cell_writes,
               forwarded |-> m.forwarded]

\* the initializer of the lazy_static
NewWriter ==
  [column_position |-> 0, color_code |-> ColorCode_new(Yellow, Black),
   buffer |-> VGA_ADDRESS]

NoOp == [op |-> "none", byte |-> 0, s |-> <<>>]
NoMark == [scrolls |-> -1, line |-> <<>>]
NoMacro == [c \in Contexts |-> [name |-> "none", a |-> <<>>, from |-> 0]]

\* ------------------------------------------------------------------------
\* Inputs
\* ------------------------------------------------------------------------
\* n printable bytes, neighbours different, none a newline
Line(n, k) == [i \in 1..n |-> 33 + ((i + k) % 90)]

\* a newline, a letter, a control byte, a high byte
SampleBytes == {NEWLINE, 65, 1, 200}

\* the first string written: every length from the empty string to one past
\* a full row
FillStrings == {Line(n, 0) : n \in 0..(BUFFER_WIDTH + 1)}

\* NUL, SOH, TAB, VT, US, DEL, and U+0080, e-acute and U+10FFFF in UTF-8:
\* bytes on every side of the ranges the match of write_string names
Unsupported == <<0, 1, 9, 11, 31, 127, 194, 128, 195, 169, 244, 143, 191, 191>>

\* "Hi\n!", "\n\nok", the unsupported bytes, a row and one byte more
SampleStrings ==
  {<<72, 105, 10, 33>>, <<10, 10, 111, 107>>, Unsupported, Line(BUFFER_WIDTH + 1, 7)}

\* print!: the format arguments go to _print as they are
print_macro(a) == a

\* mutant: println! forgets the newline
println_macro_Bare(a) == a

\* println!: print!("{}\n", format_args!(...)), the arguments and then the
\* literal "\n"
println_macro(a) == a \o <<Str(<<NEWLINE>>)>>

\* a macro invocation, and the fmt::Arguments it hands to _print
Invoke(name, a) == [name |-> name, a |-> a]
Expand(i) == IF i.name = "println" THEN println_macro(i.a) ELSE print_macro(i.a)

\* println!("{}", 'e-acute'): the character's two bytes, then the newline;
\* print!("{}{}", a, b) with 5 and 80 bytes; print!("H\n{}i", ""), which has
\* an empty piece
SamplePrints ==
  { Expand(Invoke("println", <<Str(<<195, 169>>)>>)),
    Expand(Invoke("print", <<Str(Line(5, 2)), Str(Line(BUFFER_WIDTH, 4))>>)),
    Expand(Invoke("print", <<Str(<<72, NEWLINE>>), Str(<<>>), Str(<<105>>)>>)) }

\* the text of an Arguments whose formatters all succeed
RECURSIVE TextOf(_)
TextOf(a) == IF a = <<>> THEN <<>> ELSE Head(a).s \o TextOf(Tail(a))

\* ------------------------------------------------------------------------
\* SpecWriter: one context uses the Writer through the lock, one operation
\* after another
\* ------------------------------------------------------------------------
Idle == [c \in Contexts |-> "idle"]
NoArgs == [c \in Contexts |-> <<>>]

InitWriter ==
  /\ vga = BootBuffer
  /\ WRITER = NewWriter
  /\ lazy = "complete"
  /\ locked = FALSE
  /\ pc = Idle
  /\ args = NoArgs
  /\ calls = 0
  /\ last = NoOp
  /\ probe = NoProbe
  /\ serial = <<>>
  /\ inits = 1
  /\ mark = NoMark
  /\ macro = NoMacro

WriteByte(b) ==
  /\ calls >= 1
  /\ calls <= MaxOps
  /\ calls' = calls + 1
  /\ last' = [op |-> "write_byte", byte |-> b, s |-> <<>>]
  /\ Commit(write_byte(Self, b))
  /\ UNCHANGED <<lazy, locked, pc, args, serial, inits, mark, macro>>

WriteString(s) ==
  /\ calls <= MaxOps
  /\ calls' = calls + 1
  /\ last' = [op |-> "write_string", byte |-> 0, s |-> s]
  /\ Commit(write_string(Self, s))
  /\ UNCHANGED <<lazy, locked, pc, args, serial, inits, mark, macro>>

\* _print with no other context about: lock, write_fmt, unwrap, unlock
PrintCall(a) ==
  /\ calls >= 1
  /\ calls <= MaxOps
  /\ ~locked
  /\ write_fmt(Self, a).result = "Ok"
  /\ calls' = calls + 1
  /\ last' = [op |-> "_print", byte |-> 0, s |-> TextOf(a)]
  /\ Commit(write_fmt(Self, a).m)
  /\ UNCHANGED <<lazy, locked, pc, args, serial, inits, mark, macro>>

NextWriter ==
  \/ \E b \in SampleBytes : WriteByte(b)
  \/ \E a \in SamplePrints : PrintCall(a)
  \/ \E s \in SampleStrings : calls >= 1 /\ WriteString(s)
  \/ \E s \in FillStrings : calls = 0 /\ WriteString(s)

SpecWriter == InitWriter /\ [][NextWriter]_vars

\* ------------------------------------------------------------------------
\* Spec: the contexts (cores) call _print concurrently.  _print is
\*   WRITER.lock().write_fmt(args).unwrap();
\* deref of the lazy_static, Mutex::lock, one write_str per piece of the
\* Arguments, unwrap, and the drop of the guard at the end of the statement.
\* ------------------------------------------------------------------------
\* the static's storage before the initializer has run
Uninit == [column_position |-> 0, color_code |-> 0, buffer |-> 0]

\* print!("ab{}", "cd"); println!("x"); print!("e{}", v) where v's
\* formatter returns Err
Invocations ==
  { Invoke("print", <<Str(<<97, 98>>), Str(<<99, 100>>)>>),
    Invoke("println", <<Str(<<120>>)>>),
    Invoke("print", <<Str(<<101>>), FmtErr>>) }

\* the fmt::Arguments of these invocations
PrintInputs == {Expand(i) : i \in Invocations}

\* the pieces write_fmt hands to write_str: those before the first Err
RECURSIVE Written(_)
Written(a) ==
  IF a = <<>> \/ Head(a).kind = "err" THEN <<>> ELSE <<Head(a)>> \o Written(Tail(a))

Init ==
  /\ vga = BootBuffer
  /\ WRITER = Uninit
  /\ lazy = "incomplete"
  /\ locked = FALSE
  /\ pc = Idle
  /\ args = NoArgs
  /\ calls = 0
  /\ last = NoOp
  /\ probe = NoProbe
  /\ serial = <<>>
  /\ inits = 0
  /\ mark = NoMark
  /\ macro = NoMacro

\* context c invokes a macro: its expansion calls _print
Call(c, i) ==
  /\ pc[c] = "idle"
  /\ calls < MaxCalls
  /\ calls' = calls + 1
  /\ pc' = [pc EXCEPT ![c] = "deref"]
  /\ args' = [args EXCEPT ![c] = Expand(i)]
  /\ macro' = [macro EXCEPT ![c] = [name |-> i.name, a |-> i.a, from |-> 0]]
  /\ UNCHANGED <<vga, WRITER, lazy, locked, last, probe, serial, inits, mark>>

\* mutant: the state is loaded and stored, not compare-exchanged, so a
\* second context begins while the first is still running the initializer
OnceCanBegin_Racy(state) == state # "complete"

\* Once: compare_exchange(INCOMPLETE, RUNNING) succeeds
OnceCanBegin(state) == state = "incomplete"

\* deref of WRITER with the initializer still to run: this context runs it
DerefBegin(c) ==
  /\ pc[c] = "deref"
  /\ OnceCanBegin(lazy)
  /\ lazy' = "running"
  /\ pc' = [pc EXCEPT ![c] = "init"]
  /\ UNCHANGED <<vga, WRITER, locked, args, calls, last, probe, serial, inits, mark, macro>>

\* the initializer: the Mutex is built unlocked around the new Writer
RunInit(c) ==
  /\ pc[c] = "init"
  /\ WRITER' = NewWriter
  /\ locked' = FALSE
  /\ lazy' = "complete"
  /\ inits' = inits + 1
  /\ pc' = [pc EXCEPT ![c] = "lock"]
  /\ UNCHANGED <<vga, args, calls, last, probe, serial, mark, macro>>

\* deref of WRITER once it is built; while another context runs the
\* initializer this context spins
DerefReady(c) ==
  /\ pc[c] = "deref"
  /\ lazy = "complete"
  /\ pc' = [pc EXCEPT ![c] = "lock"]
  /\ UNCHANGED <<vga, WRITER, lazy, locked, args, calls, last, probe, serial, inits, mark, macro>>

\* mutant: the lock is taken whether or not it is held
TryLock_Always(flag) == TRUE

\* Mutex::lock: compare_exchange(false, true) succeeds
TryLock(flag) == ~flag

\* Mutex::lock; a context that finds the lock held spins
Lock(c) ==
  /\ pc[c] = "lock"
  /\ TryLock(locked)
  /\ locked' = TRUE
  /\ pc' = [pc EXCEPT ![c] = "fmt"]
  /\ serial' = serial \o Written(args[c])
  /\ macro' = [macro EXCEPT ![c].from = Len(serial)]
  /\ UNCHANGED <<vga, WRITER, lazy, args, calls, last, probe, inits, mark>>

\* write_fmt: the next piece goes to write_str
FmtPiece(c) ==
  /\ pc[c] = "fmt"
  /\ args[c] # <<>>
  /\ Head(args[c]).kind = "str"
  /\ Commit(write_str(Self, Head(args[c]).s).m)
  /\ last' = [op |-> "write_str", byte |-> 0, s |-> Head(args[c]).s]
  /\ args' = [args EXCEPT ![c] = Tail(@)]
  /\ UNCHANGED <<lazy, locked, pc, calls, serial, inits, mark, macro>>

\* write_fmt returns Err, unwrap panics; the guard is still alive
FmtFail(c) ==
  /\ pc[c] = "fmt"
  /\ args[c] # <<>>
  /\ Head(args[c]).kind = "err"
  /\ pc' = [pc EXCEPT ![c] = "panic"]
  /\ UNCHANGED <<vga, WRITER, lazy, locked, args, calls, last, probe, serial, inits, mark, macro>>

\* write_fmt returns Ok, the statement ends, the guard is dropped
Unlock(c) ==
  /\ pc[c] = "fmt"
  /\ args[c] = <<>>
  /\ locked' = FALSE
  /\ pc' = [pc EXCEPT ![c] = "idle"]
  /\ UNCHANGED <<vga, WRITER, lazy, args, calls, last, probe, serial, inits, mark, macro>>

\* the panic in a build that unwinds: the guard is dropped on the way out
PanicUnwind(c) ==
  /\ pc[c] = "panic"
  /\ locked' = FALSE
  /\ pc' = [pc EXCEPT ![c] = "unwound"]
  /\ UNCHANGED <<vga, WRITER, lazy, args, calls, last, probe, serial, inits, mark, macro>>

\* the panic in a build that aborts or whose panic handler never returns:
\* nothing is dropped
PanicHalt(c) ==
  /\ pc[c] = "panic"
  /\ pc' = [pc EXCEPT ![c] = "halted"]
  /\ UNCHANGED <<vga, WRITER, lazy, locked, args, calls, last, probe, serial, inits, mark, macro>>

Next ==
  \E c \in Contexts :
    \/ \E i \in Invocations : Call(c, i)
    \/ DerefBegin(c)
    \/ RunInit(c)
    \/ DerefReady(c)
    \/ Lock(c)
    \/ FmtPiece(c)
    \/ FmtFail(c)
    \/ Unlock(c)
    \/ PanicUnwind(c)
    \/ PanicHalt(c)

Spec == Init /\ [][Next]_vars

\* ------------------------------------------------------------------------
\* Claims about the global WRITER, checked under Spec
\* ------------------------------------------------------------------------
Inside(c) == pc[c] \in {"fmt", "panic"}

\* C1: at most one context is inside a writer operation at any time, and
\* whenever none is, the grid and column_position are those of the calls
\* run one after another, whole, in the order they took the lock.
C1_Serialized ==
  /\ Cardinality({c \in Contexts : Inside(c)}) <= 1
  /\ (lazy = "complete" /\ \A c \in Contexts : pc[c] # "fmt") =>
       LET m == write_fmt(Machine(NewWriter, BootBuffer), serial).m
       IN /\ vga = m.buffer
          /\ WRITER.column_position = m.column_position

\* context 1 is halfway through its pieces while context 2 spins on the
\* lock, after an earlier call has been written
C1_Witness ==
  /\ pc[1] = "fmt" /\ Len(args[1]) = 1
  /\ pc[2] = "lock"
  /\ Len(serial) >= 3

\* C9: the initializer runs once however the first accesses interleave; it
\* leaves column_position 0 and color 0x0E; no context passes deref before
\* it has finished; afterwards WRITER is never built again: its color
\* stays, and its cursor changes only under a context that holds the lock.
C9_Step ==
  /\ inits' <= 1
  /\ (lazy # "complete" /\ lazy' = "complete") =>
       (WRITER'.column_position = 0 /\ WRITER'.color_code = 14 /\ ~locked')
  /\ lazy = "complete" =>
       /\ lazy' = "complete"
       /\ inits' = inits
       /\ WRITER'.color_code = 14
       /\ WRITER' # WRITER => \E c \in Contexts : pc[c] = "fmt" /\ locked
  /\ \A c \in Contexts :
       pc'[c] \in {"lock", "fmt", "panic", "halted", "unwound"} => lazy' = "complete"

\* C9: every step keeps WRITER built at most once, with column 0 and color
\* 0x0E, and never rebuilt (C9_Step).
C9_InitializedOnce == [][C9_Step]_vars

\* both contexts made their first access while WRITER was not yet built;
\* one initializer ran, and one context writes while the other waits
C9_Witness ==
  /\ calls = 2
  /\ inits = 1
  /\ pc[1] = "lock" /\ pc[2] = "fmt"
  /\ Len(serial) = 2
  /\ WRITER.column_position = 1

\* C10: the lock is held only while a _print call is running; when the
\* call has ended, by return or by the panic of unwrap, the lock is free.
C10_LockFreeAfterCall ==
  locked => \E c \in Contexts : Inside(c)

\* C13: when a println! call releases the lock, the grid and the cursor are
\* those of its text and one newline after it written as one string where
\* the call found the writer when it took the lock, so nothing of another
\* context lies between, and column_position is 0; when a print! call
\* releases the lock they are those of its text alone.
C13_Step ==
  \A c \in Contexts :
    (pc[c] = "fmt" /\ pc'[c] = "idle") =>
      LET found == write_fmt(Machine(NewWriter, BootBuffer),
                             SubSeq(serial, 1, macro[c].from)).m
          text == TextOf(macro[c].a)
          whole == IF macro[c].name = "println" THEN text \o <<10>> ELSE text
          left == write_string(found, whole)
      IN /\ vga' = left.buffer
         /\ WRITER'.column_position = left.column_position
         /\ macro[c].name = "println" => WRITER'.column_position = 0
         /\ macro[c].name = "print" =>
              WRITER'.column_position = found.column_position + Len(text)

\* C13: every println! call leaves its text and exactly one newline, written
\* within its one lock acquisition, and every print! call its text alone
\* (C13_Step).
C13_PrintlnEndsLine == [][C13_Step]_vars

\* context 1 has returned from println!("x"), which it began after "abcd"
\* was on the row, while context 2 was waiting for the lock
C13_Witness ==
  /\ pc[1] = "idle" /\ macro[1].name = "println" /\ macro[1].from = 2
  /\ pc[2] = "lock"
  /\ ~locked
  /\ Len(serial) = 4
  /\ WRITER.column_position = 0
  /\ vga[23][4] = ScreenChar(120, 14)
  /\ vga[24][0] = ScreenChar(32, 14)

\* ------------------------------------------------------------------------
\* SpecIrq: one core.  Context Interrupted is the code the core runs,
\* context Handler an interrupt handler on the same core that calls _print.
\* _print leaves interrupts enabled, so the handler may start at any point
\* of the interrupted code, also between its lock and its unlock; the
\* interrupted code runs again only when the handler has returned.  Every
\* formatter succeeds here.  Scheduling is fair: a context that can take a
\* step takes it.
\* ------------------------------------------------------------------------
Interrupted == 1
Handler == 2

\* the invocations whose formatters all succeed
IrqInputs == {i \in Invocations : Written(Expand(i)) = Expand(i)}

\* the core executes context c: the handler whenever one has started, the
\* interrupted code only while no handler is running (none has started, or
\* the last one has returned)
Runs(c) == c = Handler \/ pc[Handler] = "idle"

\* the steps of a _print call other than write_fmt's
LockSteps(c) ==
  \/ DerefBegin(c)
  \/ RunInit(c)
  \/ DerefReady(c)
  \/ Lock(c)
  \/ Unlock(c)

NextIrq ==
  \E c \in Contexts :
    \/ \E i \in IrqInputs : Runs(c) /\ Call(c, i)
    \/ Runs(c) /\ DerefBegin(c)
    \/ Runs(c) /\ RunInit(c)
    \/ Runs(c) /\ DerefReady(c)
    \/ Runs(c) /\ Lock(c)
    \/ Runs(c) /\ FmtPiece(c)
    \/ Runs(c) /\ Unlock(c)

\* FmtPiece(c) can happen, and changes the state when it does
FmtReady(c) == pc[c] = "fmt" /\ args[c] # <<>> /\ Head(args[c]).kind = "str"

\* weak fairness of every step of every context the core executes; that of
\* FmtPiece is written out, WF_v(A) being []<>~ENABLED <<A>>_v \/ []<><<A>>_v
FairIrq ==
  \A c \in Contexts :
    /\ WF_vars(Runs(c) /\ LockSteps(c))
    /\ \/ []<>~(Runs(c) /\ FmtReady(c))
       \/ []<><<Runs(c) /\ FmtPiece(c)>>_vars

SpecIrq == Init /\ [][NextIrq]_vars /\ FairIrq

\* C11: under fair scheduling every _print call, of the interrupted code or
\* of an interrupt handler that runs while the interrupted code is inside
\* _print, eventually acquires the lock and returns; no context spins for
\* ever.
C11_EveryCallReturns ==
  \A c \in Contexts : (pc[c] # "idle") ~> (pc[c] = "idle")

\* ------------------------------------------------------------------------
\* SpecScroll: a line carrying a byte that nothing else on the screen carries
\* is written on a fresh screen, then the screen scrolls, by newline bytes
\* and by strings that start a new line or wrap
\* ------------------------------------------------------------------------
MARKER == PRINTABLE_LAST

\* the marker and 5 more bytes; the marker and 79 more, a full row
MarkedLines == {<<MARKER>> \o Line(5, 0), <<MARKER>> \o Line(BUFFER_WIDTH - 1, 0)}

\* "\nHi", and a row and one byte more
ScrollStrings == {<<NEWLINE, 72, 105>>, Line(BUFFER_WIDTH + 1, 3)}

MarkLine(s) ==
  /\ mark.scrolls = -1
  /\ last' = [op |-> "write_string", byte |-> 0, s |-> s]
  /\ Commit(write_string(Self, s))
  /\ mark' = [scrolls |-> 0, line |-> vga'[BUFFER_HEIGHT - 1]]
  /\ UNCHANGED <<lazy, locked, pc, args, calls, serial, inits, macro>>

ScrollByNewline ==
  /\ mark.scrolls >= 0
  /\ mark.scrolls < MaxScrolls
  /\ last' = [op |-> "write_byte", byte |-> NEWLINE, s |-> <<>>]
  /\ Commit(write_byte(Self, NEWLINE))
  /\ mark' = [mark EXCEPT !.scrolls = @ + probe'.scrolls]
  /\ UNCHANGED <<lazy, locked, pc, args, calls, serial, inits, macro>>

\* while the marked line is on row 24 only a string that leaves it as it is
\* follows: one starting with a newline, or any once the row is full
ScrollByString(s) ==
  /\ mark.scrolls >= 0
  /\ mark.scrolls < MaxScrolls
  /\ calls < MaxScrollOps
  /\ mark.scrolls = 0 => (s[1] = NEWLINE \/ WRITER.column_position = BUFFER_WIDTH)
  /\ calls' = calls + 1
  /\ last' = [op |-> "write_string", byte |-> 0, s |-> s]
  /\ Commit(write_string(Self, s))
  /\ mark' = [mark EXCEPT !.scrolls = @ + probe'.scrolls]
  /\ UNCHANGED <<lazy, locked, pc, args, serial, inits, macro>>

NextScroll ==
  \/ \E s \in MarkedLines : MarkLine(s)
  \/ ScrollByNewline
  \/ \E s \in ScrollStrings : ScrollByString(s)

SpecScroll == InitWriter /\ [][NextScroll]_vars

\* C8: a line on row 24 stands on row 24 - k after k scrolls, k in 1..=24,
\* and after 25 or more scrolls it is in no row: the marked line is where
\* the count says, its marker byte is in that row only, and once scrolled
\* off neither the line nor the marker is anywhere on the screen.
C8_ScrollsOff ==
  LET k == mark.scrolls
      marked == {r \in Rows : \E c \in Cols : vga[r][c].ascii_character = MARKER}
  IN /\ k \in 1..24 => (vga[24 - k] = mark.line /\ marked = {24 - k})
     /\ k >= 25 => (marked = {} /\ \A r \in Rows : vga[r] # mark.line)

\* the marked line has left row 0 and the screen scrolled on
C8_Witness ==
  /\ mark.scrolls = 26
  /\ calls = 1
  /\ \A r \in Rows : vga[r] # mark.line

\* ------------------------------------------------------------------------
\* Claims about the Writer, checked under SpecWriter
\* ------------------------------------------------------------------------
Printable(b) == b >= 32 /\ b <= 126
AllPrintable(s) == \A i \in 1..Len(s) : Printable(s[i])
BlankCell(color) == ScreenChar(32, color)

\* C2: column_position stays within 0..=80, and every cell index write_byte
\* uses lies inside the 25x80 grid (the column at most 79).
C2_ColumnInRange ==
  /\ WRITER.column_position \in 0..80
  /\ \A rc \in probe.cell_writes : rc[1] \in 0..24 /\ rc[2] \in 0..79

\* a full row has just been written to its last column
C2_Witness ==
  /\ WRITER.column_position = 80
  /\ <<24, 79>> \in probe.cell_writes

\* C3: text is written to row 24 only; a row above it holds afterwards what
\* it held before or what scrolls shifted up from below: with k scrolls in
\* the operation, row r holds the old row r + k; the row that was row 24 at
\* the first scroll keeps the old row 24 left of the old cursor; rows that
\* were filled during the operation hold only blanks and bytes the
\* operation passed to write_byte.
C3_Step ==
  LET k == probe'.scrolls
      written == {probe'.forwarded[i] : i \in 1..Len(probe'.forwarded)}
  IN /\ \A rc \in probe'.cell_writes : rc[1] = 24
     /\ \A r \in 0..23 :
          /\ r + k <= 23 => vga'[r] = vga[r + k]
          /\ r + k = 24 =>
               \A c \in 0..79 : c < WRITER.column_position => vga'[r][c] = vga[24][c]
          /\ r + k > 24 =>
               \A c \in 0..79 :
                 /\ vga'[r][c].color_code = WRITER.color_code
                 /\ vga'[r][c].ascii_character \in written \cup {32}

\* C3: every step of the Writer leaves the rows above row 24 shifted, never
\* written (C3_Step).
C3_OnlyLastRowWritten == [][C3_Step]_vars

\* an operation that scrolled twice and then wrote text
C3_Witness ==
  /\ probe.scrolls = 2
  /\ probe.cell_writes # {}

\* C4: write_byte of 0x0a from any column 0..=80 scrolls exactly once and
\* leaves column 0; it writes no cell: every row holds what the row below
\* held and row 24 is blank.
C4_Step ==
  (last'.op = "write_byte" /\ last'.byte = 10) =>
    /\ probe'.scrolls = 1
    /\ WRITER'.column_position = 0
    /\ probe'.cell_writes = {}
    /\ \A r \in 0..23 : vga'[r] = vga[r + 1]
    /\ \A c \in 0..79 : vga'[24][c] = BlankCell(WRITER.color_code)

\* C4: every write_byte of 0x0a scrolls once, to column 0, writing no cell
\* (C4_Step).
C4_NewlineScrollsOnce == [][C4_Step]_vars

\* a newline written at column 80: the full row is now row 23
C4_Witness ==
  /\ last.op = "write_byte" /\ last.byte = 10
  /\ probe.scrolls = 1
  /\ WRITER.column_position = 0
  /\ \A c \in 0..79 : vga[23][c] = ScreenChar(Line(80, 0)[c + 1], 14)

\* C5: from column 0, 80 printable characters and one more scroll exactly
\* once: row 23 holds the 80, (24, 0) the 81st, the rest of row 24 is blank
\* and column_position is 1.  Stated for the 81 written by one write_string
\* and for the 81st written by write_byte after a write_string of 80.
C5_After(chars, w, first80, b81, color) ==
  /\ \A c \in 0..79 : chars[23][c] = ScreenChar(first80[c + 1], color)
  /\ chars[24][0] = ScreenChar(b81, color)
  /\ \A c \in 1..79 : chars[24][c] = BlankCell(color)
  /\ w.column_position = 1

C5_Step ==
  /\ ( /\ last'.op = "write_string"
        /\ WRITER.column_position = 0
        /\ Len(last'.s) = 81
        /\ AllPrintable(last'.s) )
     => /\ probe'.scrolls = 1
        /\ C5_After(vga', WRITER', last'.s, last'.s[81], WRITER.color_code)
  /\ ( /\ last.op = "write_string"
        /\ Len(last.s) = 80
        /\ AllPrintable(last.s)
        /\ probe.scrolls = 0
        /\ WRITER.column_position = 80
        /\ last'.op = "write_byte"
        /\ Printable(last'.byte) )
     => /\ probe'.scrolls = 1
        /\ C5_After(vga', WRITER', last.s, last'.byte, WRITER.color_code)

\* C5: every 81st printable character after 80 from column 0 lands on
\* (24, 0) after exactly one scroll (C5_Step).
C5_EightyFirstWraps == [][C5_Step]_vars

\* the 81st character written by write_byte after a write_string of 80
C5_Witness ==
  /\ last.op = "write_byte" /\ last.byte = 65
  /\ probe.scrolls = 1
  /\ vga[24][0] = ScreenChar(65, 14)
  /\ \A c \in 0..79 : vga[23][c] = ScreenChar(Line(80, 0)[c + 1], 14)

\* C6: from column 0, write_string of n <= 80 printable bytes scrolls not at
\* all, leaves column_position = n and cell (24, i) = the i-th byte in the
\* writer's color.
C6_Step ==
  ( /\ last'.op = "write_string"
    /\ WRITER.column_position = 0
    /\ Len(last'.s) <= 80
    /\ AllPrintable(last'.s) )
  => /\ probe'.scrolls = 0
     /\ WRITER'.column_position = Len(last'.s)
     /\ \A i \in 0..(Len(last'.s) - 1) :
          vga'[24][i] = ScreenChar(last'.s[i + 1], WRITER.color_code)

\* C6: every write_string of at most 80 printable bytes from column 0 stays
\* on row 24 and leaves the cursor at its length (C6_Step).
C6_ShortStringStaysOnRow == [][C6_Step]_vars

\* a string of exactly 80 bytes written from column 0
C6_Witness ==
  /\ last.op = "write_string"
  /\ Len(last.s) = 80
  /\ calls = 1
  /\ WRITER.column_position = 80
  /\ probe.scrolls = 0

\* C7: write_string (and _print through it) passes one byte to write_byte
\* per input byte, in order: 0x20..=0x7e and 0x0a unchanged, every other
\* byte as 0xfe; no unsupported byte enters the grid (each cell of a row the
\* operation wrote on holds a supported byte or what it held before), and
\* without a scroll the cells from the old cursor on hold the passed bytes
\* one by one.
C7_Expected(b) == IF (b >= 32 /\ b <= 126) \/ b = 10 THEN b ELSE 254

C7_Step ==
  last'.op \in {"write_string", "_print"} =>
    LET s == last'.s
        col == WRITER.column_position
    IN /\ probe'.forwarded = [i \in 1..Len(s) |-> C7_Expected(s[i])]
       /\ \A r \in Rows, c \in Cols :
            r + probe'.scrolls >= 24 =>
              \/ vga'[r][c].ascii_character \in (32..126) \cup {254}
              \/ r + probe'.scrolls = 24 /\ vga'[r][c] = vga[24][c]
       /\ probe'.scrolls = 0 =>
            \A i \in 1..Len(s) : vga'[24][col + i - 1].ascii_character = C7_Expected(s[i])

\* C7: every write_string passes each byte on once, unsupported bytes as
\* 0xfe (C7_Step).
C7_FilterForwardsOneByteEach == [][C7_Step]_vars

\* the 14 unsupported bytes became 14 placeholder cells on row 24
C7_Witness ==
  /\ last.op = "write_string"
  /\ last.s = Unsupported
  /\ probe.forwarded = [i \in 1..14 |-> 254]
  /\ probe.scrolls = 0
  /\ \A i \in 1..14 :
       vga[24][WRITER.column_position - i] = ScreenChar(254, WRITER.color_code)

\* ------------------------------------------------------------------------
\* SpecColor: ColorCode::new applied to a pair of colors.  Init draws the
\* pair, the step computes its ColorCode; last holds the pair and the result.
\* ------------------------------------------------------------------------
\* the discriminants of enum Color
Colors == 0..15

InitColor ==
  \E fg \in Colors, bg \in Colors :
    /\ vga = BootBuffer
    /\ WRITER = NewWriter
    /\ lazy = "complete"
    /\ locked = FALSE
    /\ pc = Idle
    /\ args = NoArgs
    /\ calls = 0
    /\ last = [op |-> "none", byte |-> 0, s |-> <<fg, bg>>]
    /\ probe = NoProbe
    /\ serial = <<>>
    /\ inits = 1
    /\ mark = NoMark
    /\ macro = NoMacro

NewColor ==
  /\ last.op = "none"
  /\ last' = [op |-> "ColorCode::new",
              byte |-> ColorCode_new(last.s[1], last.s[2]),
              s |-> last.s]
  /\ UNCHANGED <<vga, WRITER, lazy, locked, pc, args, calls, probe, serial, inits, mark, macro>>

NextColor == NewColor

SpecColor == InitColor /\ [][NextColor]_vars

\* C12: ColorCode::new(foreground, background) is background * 16 +
\* foreground for each of the 256 pairs of colors 0..=15: a byte, its high
\* nibble the background, its low nibble the foreground, different from the
\* byte of every other pair; yellow on black is 0x0E.
C12_ColorCode ==
  last.op = "ColorCode::new" =>
    LET fg == last.s[1]
        bg == last.s[2]
        code == last.byte
    IN /\ code = bg * 16 + fg
       /\ code \in 0..255
       /\ code \div 16 = bg
       /\ code % 16 = fg
       /\ \A f \in 0..15, b \in 0..15 :
            <<f, b>> # <<fg, bg>> => ColorCode_new(f, b) # code
       /\ (fg = 14 /\ bg = 0) => code = 14

\* white on white, the largest byte
C12_Witness ==
  /\ last.op = "ColorCode::new"
  /\ last.s = <<15, 15>>
  /\ last.byte = 255

\* ------------------------------------------------------------------------
\* SpecByte: write_byte statement by statement.  After a first string the
\* one context calls write_byte; a call is the match on the byte, then
\* new_line (first arm), or new_line when the row is full and the write of
\* the cell (second arm).  pc[1] is the statement the call stands before;
\* probe adds up over the statements of one call.
\* ------------------------------------------------------------------------
\* the empty string, a byte, half a row, and rows short of full by 2, 1, 0
\* bytes, and a row and one byte more
ByteFills ==
  {Line(n, 0) : n \in {0, 1, 40, BUFFER_WIDTH - 2, BUFFER_WIDTH - 1,
                       BUFFER_WIDTH, BUFFER_WIDTH + 1}}

\* the Writer and the grid as they stand, inside a call already counted in
\* probe
Resume ==
  [Self EXCEPT !.scrolls = probe.scrolls,
               !.cell_writes = probe.cell_writes,
               !.forwarded = probe.forwarded]

At(where) == [pc EXCEPT ![1] = where]

\* write_byte is entered: the match, and in the second arm the wrap test
ByteCall(b) ==
  /\ pc[1] = "idle"
  /\ calls >= 1
  /\ calls <= MaxByteCalls
  /\ calls' = calls + 1
  /\ last' = [op |-> "write_byte", byte |-> b, s |-> <<>>]
  /\ probe' = [NoProbe EXCEPT !.forwarded = <<b>>]
  /\ pc' = IF b = NEWLINE THEN At("newline")
           ELSE IF NeedsWrap(WRITER.column_position) THEN At("wrap")
           ELSE At("cell")
  /\ UNCHANGED <<vga, WRITER, lazy, locked, args, serial, inits, mark, macro>>

\* self.new_line(), called from the first arm or from the wrap test
NewLineStep ==
  /\ pc[1] \in {"newline", "wrap"}
  /\ Commit(new_line(Resume))
  /\ pc' = IF pc[1] = "wrap" THEN At("cell") ELSE At("idle")
  /\ UNCHANGED <<lazy, locked, args, calls, last, serial, inits, mark, macro>>

\* the rest of the second arm
CellStep ==
  /\ pc[1] = "cell"
  /\ Commit(WriteCell(Resume, last.byte))
  /\ pc' = At("idle")
  /\ UNCHANGED <<lazy, locked, args, calls, last, serial, inits, mark, macro>>

NextByte ==
  \/ \E s \in ByteFills : calls = 0 /\ WriteString(s)
  \/ \E b \in SampleBytes : ByteCall(b)
  \/ NewLineStep
  \/ CellStep

SpecByte == InitWriter /\ [][NextByte]_vars

\* a step of SpecByte that is a call of new_line
IsNewLine == pc[1] \in {"newline", "wrap"} /\ pc'[1] # pc[1]

\* C14: one scroll leaves in every cell (r - 1, col), r in 1..=24, the cell
\* (byte and color) that was at (r, col), so the old row 0 is gone and no
\* row is there twice unless it was before, and leaves every cell of row 24
\* a space in the writer's color.
C14_Step ==
  IsNewLine =>
    /\ \A r \in 1..24 : \A col \in 0..79 : vga'[r - 1][col] = vga[r][col]
    /\ \A col \in 0..79 : vga'[24][col] = ScreenChar(32, WRITER.color_code)
    /\ \A r \in 0..22 : vga[r + 1] # vga[r + 2] => vga'[r] # vga'[r + 1]
    /\ probe'.scrolls = probe.scrolls + 1
    /\ probe'.cell_writes = probe.cell_writes

\* C14: every call of new_line moves each row up by one and blanks row 24
\* (C14_Step).
C14_ScrollMovesRowsUp == [][C14_Step]_vars

\* new_line was called by the wrap test with 80 bytes on row 24: they are
\* on row 23 now, row 24 is blank and the byte is still to be written
C14_Witness ==
  /\ pc[1] = "cell"
  /\ probe.scrolls = 1
  /\ \A col \in 0..79 : vga[23][col] = ScreenChar(Line(80, 0)[col + 1], 14)
  /\ \A col \in 0..79 : vga[24][col] = ScreenChar(32, 14)
  /\ vga[22] = BootBuffer[23]

\* a step of SpecByte that enters write_byte
IsByteCall == pc[1] = "idle" /\ pc'[1] # "idle"

\* C15: the write_byte that fills column 79 scrolls not at all and leaves
\* column_position 80 with the 80 characters on row 24; a write_byte of
\* another byte than 0x0a scrolls first thing when it finds column_position
\* 80 and not otherwise, and scrolls once.
C15_Step ==
  /\ (pc[1] = "cell" /\ WRITER.column_position = 79) =>
       /\ probe'.scrolls = 0
       /\ WRITER'.column_position = 80
       /\ pc'[1] = "idle"
       /\ \A r \in 0..23 : vga'[r] = vga[r]
       /\ \A col \in 0..78 : vga'[24][col] = vga[24][col]
       /\ vga'[24][79] = ScreenChar(last.byte, WRITER.color_code)
  /\ (IsByteCall /\ last'.byte # 10) =>
       /\ vga' = vga /\ WRITER' = WRITER
       /\ pc'[1] = IF WRITER.column_position = 80 THEN "wrap" ELSE "cell"
  /\ pc[1] = "wrap" =>
       /\ probe.scrolls = 0 /\ probe'.scrolls = 1
       /\ WRITER'.column_position = 0
       /\ pc'[1] = "cell"
  /\ pc[1] = "cell" =>
       /\ probe'.scrolls = probe.scrolls
       /\ pc'[1] = "idle"

\* C15: every write_byte wraps lazily: none scrolls after writing its cell,
\* one that finds the row full scrolls once before (C15_Step).
C15_WrapIsLazy == [][C15_Step]_vars

\* after 79 bytes 'A' filled the row without a scroll and the next byte
\* scrolled once: the full row is row 23, the byte is at (24, 0)
C15_Witness ==
  /\ pc[1] = "idle"
  /\ calls = 3
  /\ probe.scrolls = 1
  /\ WRITER.column_position = 1
  /\ \A col \in 0..78 : vga[23][col] = ScreenChar(Line(79, 0)[col + 1], 14)
  /\ vga[23][79] = ScreenChar(65, 14)
  /\ vga[24][0] = ScreenChar(200, 14)

\* C20 as stated: a call of new_line leaves column_position as it was, the
\* reset to 0 being left to write_byte.
C20_NewLineKeepsColumn ==
  [][IsNewLine => WRITER'.column_position = WRITER.column_position]_vars

\* C20, amended: new_line itself sets column_position to 0; write_byte
\* never resets it: entering it changes nothing, after new_line in the
\* newline arm it returns, and in the other arm it writes the cell and moves
\* the cursor right by one.
C20_Step ==
  /\ IsNewLine => WRITER'.column_position = 0
  /\ IsByteCall => WRITER' = WRITER
  /\ pc[1] = "newline" => pc'[1] = "idle"
  /\ pc[1] = "cell" => WRITER'.column_position = WRITER.column_position + 1

\* C20, amended: every call of new_line resets column_position, no other
\* statement of write_byte does (C20_Step).
C20_NewLineResetsColumn == [][C20_Step]_vars

\* new_line, called for a newline byte at column 40, has returned with
\* column_position 0
C20_Witness ==
  /\ pc[1] = "idle"
  /\ last.op = "write_byte" /\ last.byte = 10
  /\ calls = 2
  /\ probe.scrolls = 1
  /\ WRITER.column_position = 0
  /\ vga[23][39] = ScreenChar(Line(40, 0)[40], 14)
  /\ vga[23][40] = BootBuffer[24][40]

\* ------------------------------------------------------------------------
\* More claims about the Writer, checked under SpecWriter
\* ------------------------------------------------------------------------
\* C16: write_byte takes every byte as it is: after write_byte(b), b not
\* 0x0a, from any column 0..=80, the cell (24, column_position - 1) holds b
\* in the writer's color.  Stated for the write_byte just done, and for
\* each of the 255 bytes written next to the first string.
C16_EveryByteWritten ==
  /\ (last.op = "write_byte" /\ last.byte # 10) =>
       vga[24][WRITER.column_position - 1] = ScreenChar(last.byte, WRITER.color_code)
  /\ calls = 1 =>
       \A b \in (0..255) \ {10} :
         LET m == write_byte(Self, b)
         IN /\ m.column_position \in 1..80
            /\ m.buffer[24][m.column_position - 1] = ScreenChar(b, WRITER.color_code)

\* the control byte 0x01 written on a full row: it is at (24, 0) untouched
C16_Witness ==
  /\ last.op = "write_byte" /\ last.byte = 1
  /\ probe.scrolls = 1
  /\ WRITER.column_position = 1
  /\ vga[24][0] = ScreenChar(1, 14)

\* C17: write_byte of a byte other than 0x0a at column c < 80 changes the
\* cell (24, c) and column_position, to c + 1, and nothing else: no other
\* cell, not color_code, and there is no scroll.
C17_Step ==
  (last'.op = "write_byte" /\ last'.byte # 10 /\ WRITER.column_position < 80) =>
    LET c == WRITER.column_position
    IN /\ \A r \in 0..24, col \in 0..79 :
            <<r, col>> # <<24, c>> => vga'[r][col] = vga[r][col]
       /\ vga'[24][c] = ScreenChar(last'.byte, WRITER.color_code)
       /\ WRITER' = [WRITER EXCEPT !.column_position = c + 1]
       /\ probe'.scrolls = 0
       /\ probe'.cell_writes = {<<24, c>>}

\* C17: every write_byte of a non-newline byte left of column 80 changes
\* one cell and the cursor only (C17_Step).
C17_OneCellOnly == [][C17_Step]_vars

\* a byte written at column 79: its left neighbour is still the 79th byte
\* of the first string, the row above still the boot content
C17_Witness ==
  /\ last.op = "write_byte" /\ last.byte = 200
  /\ WRITER.column_position = 80
  /\ probe.scrolls = 0
  /\ vga[24][79] = ScreenChar(200, 14)
  /\ vga[24][78] = ScreenChar(Line(79, 0)[79], 14)
  /\ vga[23] = BootBuffer[23]

\* the strings written in pieces
PieceStrings == SampleStrings \cup {<<>>}

\* C18: text written in pieces leaves the grid and column_position that the
\* whole text written by one write_string leaves.  Stated for every _print
\* call, whose pieces write_fmt hands to write_str one by one, and, where
\* the _print call after the first string starts, for every pair of the
\* sample strings.
C18_Step ==
  last'.op = "_print" =>
    /\ LET whole == write_string(Self, last'.s)
       IN /\ vga' = whole.buffer
          /\ WRITER'.column_position = whole.column_position
    /\ calls = 1 =>
       \A s1 \in PieceStrings, s2 \in PieceStrings :
         LET pieces == write_string(write_string(Self, s1), s2)
             whole == write_string(Self, s1 \o s2)
         IN /\ pieces.buffer = whole.buffer
            /\ pieces.column_position = whole.column_position

\* C18: every text written in pieces renders as the whole text (C18_Step).
C18_PiecesAsWhole == [][C18_Step]_vars

\* print!("{}{}", a, b) with 5 and 80 bytes, begun at column 78: the pieces
\* wrapped twice between them
C18_Witness ==
  /\ last.op = "_print"
  /\ last.s = Line(5, 2) \o Line(80, 4)
  /\ probe.scrolls = 2
  /\ WRITER.column_position = 3
  /\ vga[22][77] = ScreenChar(Line(78, 0)[78], 14)
  /\ vga[22][78] = ScreenChar(Line(5, 2)[1], 14)
  /\ vga[24][2] = ScreenChar(Line(80, 4)[80], 14)

\* C19: no operation changes color_code, which is 0x0E for the global
\* writer; every cell an operation leaves is the cell that its scrolls moved
\* there, color and byte together, or carries color 0x0E, be it a character
\* or the blank of a cleared row.
C19_Step ==
  /\ WRITER.color_code = 14
  /\ WRITER'.color_code = 14
  /\ \A r \in 0..24, col \in 0..79 :
       \/ r + probe'.scrolls <= 24 /\ vga'[r][col] = vga[r + probe'.scrolls][col]
       \/ vga'[r][col].color_code = 14

\* C19: every step of the Writer keeps color_code 0x0E and writes cells of
\* that color only (C19_Step).
C19_ColorNeverChanges == [][C19_Step]_vars

\* after two scrolls and some text: boot cells in their gray, moved up, above
\* a cleared row and a row with text and blanks, all in 0x0E
C19_Witness ==
  /\ WRITER.color_code = 14
  /\ probe.scrolls = 2
  /\ probe.cell_writes # {}
  /\ vga[0] = BootBuffer[2]
  /\ \A col \in 0..79 : vga[23][col] = ScreenChar(32, 14)
  /\ vga[24][0].color_code = 14 /\ vga[24][0].ascii_character # 32
  /\ vga[24][79] = ScreenChar(32, 14)

====
